---- MODULE Spec2Model ----
(***************************************************************************)
(* Classroom booking system (src/Task1.py): class Room, class              *)
(* BookingSystem and the CSV file bookings_final_state.csv.                *)
(*                                                                         *)
(* A Python str is a sequence of one-character strings.  An optional       *)
(* value (None or a value) is a sequence of length 0 or 1.  A dict is the  *)
(* sequence of its values in insertion order, with unique keys.            *)
(***************************************************************************)
EXTENDS Integers, Sequences, FiniteSets, TLC

VARIABLES rooms, file, last, pc

vars == <<rooms, file, last, pc>>

(***************************************************************************)
(* Bounds of the model                                                     *)
(***************************************************************************)
MaxFileRows == 2

(***************************************************************************)
(* Constants of the program                                                *)
(***************************************************************************)
MinHour == 0
MaxHour == 23

None == <<>>
Some(x) == <<x>>

NL == "\n"

(***************************************************************************)
(* str methods and int/str conversions                                     *)
(***************************************************************************)
Whitespace == {" ", NL}

Digits == <<"0", "1", "2", "3", "4", "5", "6", "7", "8", "9">>

RECURSIVE lstrip(_)
lstrip(s) ==
    IF s # <<>> /\ Head(s) \in Whitespace THEN lstrip(Tail(s)) ELSE s

RECURSIVE rstrip(_)
rstrip(s) ==
    IF s # <<>> /\ s[Len(s)] \in Whitespace
    THEN rstrip(SubSeq(s, 1, Len(s) - 1))
    ELSE s

strip(s) == rstrip(lstrip(s))

lower_char(c) ==
    CASE c = "N" -> "n"
      [] c = "F" -> "f"
      [] c = "A" -> "a"
      [] c = "B" -> "b"
      [] OTHER -> c

lower(s) == [i \in 1..Len(s) |-> lower_char(s[i])]

RECURSIVE split_from(_, _, _)
split_from(s, sep, cur) ==
    IF s = <<>> THEN <<cur>>
    ELSE IF Head(s) = sep THEN <<cur>> \o split_from(Tail(s), sep, <<>>)
    ELSE split_from(Tail(s), sep, Append(cur, Head(s)))

split(s, sep) == split_from(s, sep, <<>>)

RECURSIVE join(_, _)
join(sep, parts) ==
    IF parts = <<>> THEN <<>>
    ELSE IF Len(parts) = 1 THEN parts[1]
    ELSE parts[1] \o <<sep>> \o join(sep, Tail(parts))

RECURSIVE str_nat(_)
str_nat(n) ==
    IF n < 10 THEN <<Digits[n + 1]>>
    ELSE Append(str_nat(n \div 10), Digits[(n % 10) + 1])

\* str(n) for an int n
str(n) == IF n < 0 THEN <<"-">> \o str_nat(-n) ELSE str_nat(n)

digit_val(c) == CHOOSE d \in 0..9 : Digits[d + 1] = c

is_digit(c) == \E d \in 0..9 : Digits[d + 1] = c

RECURSIVE nat_of(_, _)
nat_of(s, acc) ==
    IF s = <<>> THEN acc
    ELSE nat_of(Tail(s), 10 * acc + digit_val(Head(s)))

\* int(s) for a str s: surrounding whitespace and one sign are accepted,
\* then one or more digits; anything else raises ValueError.
int(s) ==
    LET t == strip(s)
        signed == t # <<>> /\ Head(t) \in {"-", "+"}
        d == IF signed THEN Tail(t) ELSE t
    IN  IF d # <<>> /\ \A i \in 1..Len(d) : is_digit(d[i])
        THEN [err |-> "ok",
              val |-> IF signed /\ Head(t) = "-" THEN -nat_of(d, 0)
                      ELSE nat_of(d, 0)]
        ELSE [err |-> "ValueError", val |-> 0]

(***************************************************************************)
(* class Room                                                              *)
(***************************************************************************)
\* Room.__init__; capacity and booked_hours arrive as ints (int(x) of an
\* int is x), the callers convert text before the call.
Room(room_no, building, capacity, booked_hours) ==
    [room_no |-> room_no, building |-> building,
     capacity |-> capacity, booked_hours |-> booked_hours]

is_free_at(room, hour) ==
    \A i \in 1..Len(room.booked_hours) : room.booked_hours[i] # hour

sort(s) == SortSeq(s, LAMBDA a, b : a < b)

\* book_hour without the is_free_at test
book_hour_unchecked(room, hour) ==
    [room |-> [room EXCEPT !.booked_hours = sort(Append(@, hour))],
     err |-> "ok"]

\* book_hour that assigns the list instead of appending to it
book_hour_replace(room, hour) ==
    IF ~is_free_at(room, hour)
    THEN [room |-> room, err |-> "TimeslotAlreadyBookedError"]
    ELSE [room |-> [room EXCEPT !.booked_hours = <<hour>>], err |-> "ok"]

book_hour(room, hour) ==
    IF ~is_free_at(room, hour)
    THEN [room |-> room, err |-> "TimeslotAlreadyBookedError"]
    ELSE [room |-> [room EXCEPT !.booked_hours = sort(Append(@, hour))],
          err |-> "ok"]

booked_hours_str(room) ==
    join(";", [i \in 1..Len(room.booked_hours) |-> str(room.booked_hours[i])])

(***************************************************************************)
(* class BookingSystem: self.rooms is the sequence of Room values          *)
(***************************************************************************)
has_key(rs, room_no) == \E i \in 1..Len(rs) : rs[i].room_no = room_no

index_of(rs, room_no) == CHOOSE i \in 1..Len(rs) : rs[i].room_no = room_no

\* self.rooms[room_no] = room
set_item(rs, room) ==
    IF has_key(rs, room.room_no)
    THEN [rs EXCEPT ![index_of(rs, room.room_no)] = room]
    ELSE Append(rs, room)

\* add_room without the test for a duplicate id
add_room_overwrite(rs, room_no, building, capacity) ==
    [rooms |-> set_item(rs, Room(room_no, building, capacity, <<>>)),
     err |-> "ok"]

add_room(rs, room_no, building, capacity) ==
    IF has_key(rs, room_no)
    THEN [rooms |-> rs, err |-> "RoomAlreadyExistsError"]
    ELSE [rooms |-> set_item(rs, Room(room_no, building, capacity, <<>>)),
          err |-> "ok"]

get_room(rs, room_no) ==
    IF ~has_key(rs, room_no)
    THEN [err |-> "RoomNotFoundError", result |-> None]
    ELSE [err |-> "ok", result |-> Some(rs[index_of(rs, room_no)])]

\* book_room that tests the hour before it looks the room up
book_room_range_first(rs, room_no, hour) ==
    IF hour < MinHour \/ hour > MaxHour
    THEN [rooms |-> rs, err |-> "ValueError"]
    ELSE LET got == get_room(rs, room_no)
         IN  IF got.err # "ok" THEN [rooms |-> rs, err |-> got.err]
             ELSE LET booked == book_hour(got.result[1], hour)
                  IN  [rooms |-> IF booked.err = "ok"
                                 THEN set_item(rs, booked.room) ELSE rs,
                       err |-> booked.err]

\* book_room that tests the hour only when the hour is free in the room
book_room_book_first(rs, room_no, hour) ==
    LET got == get_room(rs, room_no)
    IN  IF got.err # "ok" THEN [rooms |-> rs, err |-> got.err]
        ELSE LET booked == book_hour(got.result[1], hour)
             IN  IF booked.err # "ok" THEN [rooms |-> rs, err |-> booked.err]
                 ELSE IF hour < MinHour \/ hour > MaxHour
                 THEN [rooms |-> rs, err |-> "ValueError"]
                 ELSE [rooms |-> set_item(rs, booked.room), err |-> "ok"]

book_room(rs, room_no, hour) ==
    LET got == get_room(rs, room_no)
    IN  IF got.err # "ok" THEN [rooms |-> rs, err |-> got.err]
        ELSE IF hour < MinHour \/ hour > MaxHour
        THEN [rooms |-> rs, err |-> "ValueError"]
        ELSE LET booked == book_hour(got.result[1], hour)
             IN  [rooms |-> IF booked.err = "ok"
                            THEN set_item(rs, booked.room) ELSE rs,
                  err |-> booked.err]

\* find_rooms with capacity > min_capacity
find_rooms_gt(rs, building, min_capacity, free_at_hour) ==
    LET r1 == IF building # None
              THEN SelectSeq(rs, LAMBDA r : lower(r.building) = lower(building[1]))
              ELSE rs
        r2 == IF min_capacity # None
              THEN SelectSeq(r1, LAMBDA r : r.capacity > min_capacity[1])
              ELSE r1
        r3 == IF free_at_hour # None
              THEN SelectSeq(r2, LAMBDA r : is_free_at(r, free_at_hour[1]))
              ELSE r2
    IN  r3

\* building, min_capacity, free_at_hour are optional (None or a value)
find_rooms(rs, building, min_capacity, free_at_hour) ==
    LET r1 == IF building # None
              THEN SelectSeq(rs, LAMBDA r : lower(r.building) = lower(building[1]))
              ELSE rs
        r2 == IF min_capacity # None
              THEN SelectSeq(r1, LAMBDA r : r.capacity >= min_capacity[1])
              ELSE r1
        r3 == IF free_at_hour # None
              THEN SelectSeq(r2, LAMBDA r : is_free_at(r, free_at_hour[1]))
              ELSE r2
    IN  r3

(***************************************************************************)
(* csv.reader / csv.writer (default dialect).  The text of the file is the *)
(* sequence of its lines, each without its line terminator NL.             *)
(***************************************************************************)
\* the reader's state machine over the characters of one line
RECURSIVE csv_line(_, _, _, _)
csv_line(text, state, field, row) ==
    IF text = <<>> THEN [state |-> state, field |-> field, row |-> row]
    ELSE
    LET c == Head(text)
        rest == Tail(text)
        end_field == csv_line(rest, "START_FIELD", <<>>, Append(row, field))
        add(next) == csv_line(rest, next, Append(field, c), row)
    IN  CASE state \in {"START_RECORD", "START_FIELD"} ->
                 IF c = "\"" THEN csv_line(rest, "IN_QUOTED_FIELD", <<>>, row)
                 ELSE IF c = "," THEN end_field
                 ELSE add("IN_FIELD")
          [] state = "IN_FIELD" ->
                 IF c = "," THEN end_field ELSE add("IN_FIELD")
          [] state = "IN_QUOTED_FIELD" ->
                 IF c = "\""
                 THEN csv_line(rest, "QUOTE_IN_QUOTED_FIELD", field, row)
                 ELSE add("IN_QUOTED_FIELD")
          [] state = "QUOTE_IN_QUOTED_FIELD" ->
                 IF c = "\"" THEN add("IN_QUOTED_FIELD")
                 ELSE IF c = "," THEN end_field
                 ELSE add("IN_FIELD")

\* the rows of the file; an empty line is the row [], a quoted field that
\* is open at the end of a line goes on in the next line
RECURSIVE csv_lines(_, _, _, _)
csv_lines(lines, state, field, row) ==
    IF lines = <<>>
    THEN IF state = "START_RECORD" THEN <<>> ELSE <<Append(row, field)>>
    ELSE
    LET r == csv_line(Head(lines), state, field, row)
    IN  IF r.state = "IN_QUOTED_FIELD"
        THEN csv_lines(Tail(lines), r.state, Append(r.field, NL), r.row)
        ELSE IF r.state = "START_RECORD"
        THEN <<<<>>>> \o csv_lines(Tail(lines), "START_RECORD", <<>>, <<>>)
        ELSE <<Append(r.row, r.field)>>
                 \o csv_lines(Tail(lines), "START_RECORD", <<>>, <<>>)

csv_reader(lines) == csv_lines(lines, "START_RECORD", <<>>, <<>>)

RECURSIVE csv_escape(_)
csv_escape(s) ==
    IF s = <<>> THEN <<>>
    ELSE IF Head(s) = "\"" THEN <<"\"", "\"">> \o csv_escape(Tail(s))
    ELSE <<Head(s)>> \o csv_escape(Tail(s))

csv_field(s) ==
    IF \E i \in 1..Len(s) : s[i] \in {",", "\"", NL}
    THEN <<"\"">> \o csv_escape(s) \o <<"\"">>
    ELSE s

\* csv.writer.writerow: the lines the row adds to the file
csv_writerow(fields) ==
    split(join(",", [i \in 1..Len(fields) |-> csv_field(fields[i])]), NL)

K_room_no == <<"r", "o", "o", "m", "_", "n", "o">>
K_building == <<"b", "u", "i", "l", "d", "i", "n", "g">>
K_capacity == <<"c", "a", "p", "a", "c", "i", "t", "y">>
K_booked_hours ==
    <<"b", "o", "o", "k", "e", "d", "_", "h", "o", "u", "r", "s">>

fieldnames == <<K_room_no, K_building, K_capacity, K_booked_hours>>

\* row.get(key, default) on the dict csv.DictReader builds for a row: a key
\* of the header beyond the end of the row maps to None.
row_get(names, row, key, default) ==
    IF \A i \in 1..Len(names) : names[i] # key THEN Some(default)
    ELSE LET i == CHOOSE j \in 1..Len(names) :
                      /\ names[j] = key
                      /\ \A k \in (j + 1)..Len(names) : names[k] # key
         IN  IF i <= Len(row) THEN Some(row[i]) ELSE None

\* [int(x) for x in parts if x.strip() != '']
RECURSIVE int_list(_)
int_list(parts) ==
    IF parts = <<>> THEN [err |-> "ok", val |-> <<>>]
    ELSE IF strip(Head(parts)) = <<>> THEN int_list(Tail(parts))
    ELSE LET h == int(Head(parts))
             t == int_list(Tail(parts))
         IN  IF h.err # "ok" THEN [err |-> h.err, val |-> <<>>]
             ELSE IF t.err # "ok" THEN t
             ELSE [err |-> "ok", val |-> <<h.val>> \o t.val]

\* the body of "for row in reader", rows = the rows still to read
RECURSIVE load_rows(_, _, _)
load_rows(rs, names, rows) ==
    IF rows = <<>> THEN [rooms |-> rs, err |-> "ok"]
    ELSE
    LET row == Head(rows)
        v_room_no == row_get(names, row, K_room_no, <<>>)
        v_building == row_get(names, row, K_building, <<>>)
        v_capacity == row_get(names, row, K_capacity, <<"0">>)
        v_booked == row_get(names, row, K_booked_hours, <<>>)
        room_no == strip(v_room_no[1])
        building == strip(v_building[1])
        capacity == strip(v_capacity[1])
        booked_str == strip(v_booked[1])
        booked_hours == IF booked_str = <<>> THEN [err |-> "ok", val |-> <<>>]
                        ELSE int_list(split(booked_str, ";"))
        cap == int(capacity)
    IN  IF row = <<>> THEN load_rows(rs, names, Tail(rows))
        ELSE IF None \in {v_room_no, v_building, v_capacity, v_booked}
        THEN [rooms |-> rs, err |-> "AttributeError"]
        ELSE IF booked_hours.err # "ok"
        THEN [rooms |-> rs, err |-> booked_hours.err]
        ELSE IF room_no = <<>> THEN load_rows(rs, names, Tail(rows))
        ELSE IF cap.err # "ok" THEN [rooms |-> rs, err |-> cap.err]
        ELSE load_rows(set_item(rs, Room(room_no, building, cap.val,
                                         booked_hours.val)),
                       names, Tail(rows))

\* f is the content of CSV_FILE, None when the file does not exist
load_from_csv(rs, f) ==
    IF f = None THEN [rooms |-> rs, err |-> "ok"]
    ELSE LET all == csv_reader(f[1])
         IN  IF all = <<>> THEN [rooms |-> rs, err |-> "ok"]
             ELSE load_rows(rs, Head(all), Tail(all))

\* the text save_to_csv writes
save_to_csv(rs) ==
    LET line(room) == csv_writerow(<<room.room_no, room.building,
                                     str(room.capacity),
                                     booked_hours_str(room)>>)
        RECURSIVE lines(_)
        lines(s) == IF s = <<>> THEN <<>> ELSE line(Head(s)) \o lines(Tail(s))
    IN  csv_writerow(fieldnames) \o lines(rs)

\* BookingSystem.__init__
BookingSystem(f) == load_from_csv(<<>>, f)

(***************************************************************************)
(* Inputs of the model                                                     *)
(***************************************************************************)
S_a == <<"a">>
S_b == <<"b">>
B_N == <<"N">>
B_n == <<"n">>
B_Fc == <<"F", ",">>

RoomNoInputs == {<<>>, S_a, S_b}

\* (room_no, building, capacity) of the add_room calls
AddInputs == {<<<<>>, B_N, 3>>, <<S_a, B_N, 3>>, <<S_b, B_Fc, 5>>}

HourInputs == {-1, 0, 24}

\* (building, min_capacity, free_at_hour) of the find_rooms calls
FindInputs ==
    {<<None, None, None>>,
     <<Some(B_n), Some(3), Some(0)>>,
     <<Some(<<"f", ",">>), Some(5), Some(24)>>}

Row_a_unsorted == <<"a", ",", "N", ",", "3", ",", "2", "3", ";", "9">>
Row_a_twice == <<"a", ",", "n", ",", "5", ",", "0", ";", "0">>
Row_b_spaces == <<" ", "b", " ", ",", "\"", "F", ",", "\"", ",", "+", "5", " ",
                  ",", " ", "2", "4", " ", ";", " ">>
Row_bad_capacity == <<"b", ",", "N", ",", "x", ",">>
Row_no_room_no == <<",", "N", ",", "x", ",">>
Row_bad_hour == <<"b", ",", "N", ",", "5", ",", "0", ";", "x">>
Row_short == <<"b", ",", "N">>

\* rows a file on disk may hold
FileRows ==
    {Row_a_unsorted, Row_a_twice, Row_b_spaces, Row_bad_capacity,
     Row_bad_hour}

RECURSIVE RowSeqs(_)
RowSeqs(n) ==
    IF n = 0 THEN {<<>>}
    ELSE RowSeqs(n - 1)
             \cup {Append(q, r) : q \in {x \in RowSeqs(n - 1) : Len(x) = n - 1},
                                  r \in FileRows}

Header == join(",", fieldnames)

\* the contents CSV_FILE may have when the program starts: no file, an
\* empty file, a header without two of the columns, an empty line, a row
\* without room_no, a short row, and the header followed by up to
\* MaxFileRows of FileRows
Files ==
    {None, Some(<<>>),
     Some(<<join(",", <<K_room_no, K_booked_hours>>), <<"a", ",", "0">>>>),
     Some(<<Header, <<>>, Row_a_unsorted>>),
     Some(<<Header, Row_no_room_no, Row_b_spaces>>),
     Some(<<Header, Row_a_unsorted, Row_short>>)}
        \cup {Some(<<Header>> \o q) : q \in RowSeqs(MaxFileRows)}

(***************************************************************************)
(* The program: construction, the calls on the registry, save at exit and  *)
(* the construction of the next run                                        *)
(***************************************************************************)
Call(op, args, err, result) ==
    [op |-> op, args |-> args, err |-> err, result |-> result]

Init ==
    /\ file \in Files
    /\ rooms = BookingSystem(file).rooms
    /\ last = Call("__init__", <<>>, BookingSystem(file).err, <<>>)
    /\ pc = "running"

AddRoom ==
    /\ pc = "running"
    /\ \E in \in AddInputs :
           LET r == add_room(rooms, in[1], in[2], in[3])
           IN  /\ rooms' = r.rooms
               /\ last' = Call("add_room", in, r.err, <<>>)
    /\ UNCHANGED <<file, pc>>

GetRoom ==
    /\ pc = "running"
    /\ \E room_no \in RoomNoInputs :
           LET r == get_room(rooms, room_no)
           IN  last' = Call("get_room", <<room_no>>, r.err, r.result)
    /\ UNCHANGED <<rooms, file, pc>>

BookRoom ==
    /\ pc = "running"
    /\ \E room_no \in RoomNoInputs, hour \in HourInputs :
           LET r == book_room(rooms, room_no, hour)
           IN  /\ rooms' = r.rooms
               /\ last' = Call("book_room", <<room_no, hour>>, r.err, <<>>)
    /\ UNCHANGED <<file, pc>>

FindRooms ==
    /\ pc = "running"
    /\ \E in \in FindInputs :
           last' = Call("find_rooms", in,  "ok",
                        find_rooms(rooms, in[1], in[2], in[3]))
    /\ UNCHANGED <<rooms, file, pc>>

\* choice 6 of the menu: save_to_csv, then the program ends
SaveToCsv ==
    /\ pc = "running"
    /\ file' = Some(save_to_csv(rooms))
    /\ last' = Call("save_to_csv", <<>>, "ok", <<>>)
    /\ pc' = "saved"
    /\ UNCHANGED rooms

\* the next run of the program constructs its registry from the saved file
Restart ==
    /\ pc = "saved"
    /\ rooms' = BookingSystem(file).rooms
    /\ last' = Call("__init__", <<>>, BookingSystem(file).err, <<>>)
    /\ pc' = "reloaded"
    /\ UNCHANGED file

Next == AddRoom \/ GetRoom \/ BookRoom \/ FindRooms \/ SaveToCsv \/ Restart

Spec == Init /\ [][Next]_vars

(***************************************************************************)
(* Vocabulary of the properties                                            *)
(***************************************************************************)
room_of(rs, room_no) == rs[index_of(rs, room_no)]

hours_of(room) == {room.booked_hours[i] : i \in 1..Len(room.booked_hours)}

elems(q) == {q[i] : i \in 1..Len(q)}

\* every hour a call or a file of the model names, and the two next to [0,23]
AllHours == (MinHour - 1)..(MaxHour + 1)

\* {id, building, capacity, bookedHours-set} of every room
content(rs) ==
    {[room_no |-> rs[i].room_no, building |-> rs[i].building,
      capacity |-> rs[i].capacity, hours |-> hours_of(rs[i])] :
         i \in 1..Len(rs)}

in_range(hour) == hour >= MinHour /\ hour <= MaxHour

(***************************************************************************)
(* C1.  After book_hour(h) succeeds on a room, is_free_at(h) is false on   *)
(* it, the hour stays booked while the program runs, and a later           *)
(* book_hour(h) on it fails with TimeslotAlreadyBookedError and leaves the *)
(* booked hours as they were.                                              *)
(***************************************************************************)
C1_booked_now ==
    (last.op = "book_room" /\ last.err = "ok") =>
        /\ has_key(rooms, last.args[1])
        /\ ~is_free_at(room_of(rooms, last.args[1]), last.args[2])

C1_book_twice ==
    \A i \in 1..Len(rooms), h \in HourInputs :
        LET first == book_hour(rooms[i], h)
            second == book_hour(first.room, h)
        IN  first.err = "ok" =>
                /\ ~is_free_at(first.room, h)
                /\ second.err = "TimeslotAlreadyBookedError"
                /\ second.room.booked_hours = first.room.booked_hours

C1_stays_booked ==
    pc' = "running" =>
        \A i \in 1..Len(rooms) :
            \A h \in hours_of(rooms[i]) :
                /\ ~is_free_at(rooms[i], h)
                /\ has_key(rooms', rooms[i].room_no)
                /\ ~is_free_at(room_of(rooms', rooms[i].room_no), h)

C1_later_fails ==
    (/\ last'.op = "book_room"
     /\ has_key(rooms, last'.args[1])
     /\ in_range(last'.args[2])
     /\ ~is_free_at(room_of(rooms, last'.args[1]), last'.args[2])) =>
        /\ last'.err = "TimeslotAlreadyBookedError"
        /\ rooms' = rooms

C1_BookHourExclusive ==
    /\ [](C1_booked_now /\ C1_book_twice)
    /\ [][C1_stays_booked /\ C1_later_fails]_vars

\* no file at the start, so the hour was booked by a book_room of this run
C1_Witness ==
    /\ file = None
    /\ last.op = "book_room"
    /\ last.err = "TimeslotAlreadyBookedError"

(***************************************************************************)
(* C2.  No room's booked_hours holds the same hour twice.                  *)
(***************************************************************************)
C2_NoHourTwice ==
    \A i \in 1..Len(rooms) :
        \A j, k \in 1..Len(rooms[i].booked_hours) :
            j # k => rooms[i].booked_hours[j] # rooms[i].booked_hours[k]

(***************************************************************************)
(* C3.  Round trip: the registry a new run constructs from the file that   *)
(* save_to_csv writes has the same room ids and, for every room, the same  *)
(* building, capacity and set of booked hours.                             *)
(***************************************************************************)
C3_RoundTrip ==
    pc = "running" =>
        content(BookingSystem(Some(save_to_csv(rooms))).rooms) = content(rooms)

(***************************************************************************)
(* C4.  A load that meets an unparseable row leaves the registry empty.    *)
(***************************************************************************)
C4_FailedLoadIsEmpty ==
    (last.op = "__init__" /\ last.err # "ok") => rooms = <<>>

(***************************************************************************)
(* C5.  add_room with an id that is already a key fails with               *)
(* RoomAlreadyExistsError and leaves the registry as it was: same size,    *)
(* the stored room keeps its building, capacity and booked hours.          *)
(***************************************************************************)
C5_add_existing ==
    (last'.op = "add_room" /\ has_key(rooms, last'.args[1])) =>
        /\ last'.err = "RoomAlreadyExistsError"
        /\ Len(rooms') = Len(rooms)
        /\ has_key(rooms', last'.args[1])
        /\ room_of(rooms', last'.args[1]) = room_of(rooms, last'.args[1])
        /\ rooms' = rooms

C5_AddExistingFails == [][C5_add_existing]_vars

\* the failed call named another building than the stored room has
C5_Witness ==
    /\ last.op = "add_room"
    /\ last.err = "RoomAlreadyExistsError"
    /\ room_of(rooms, last.args[1]).building # last.args[2]
    /\ room_of(rooms, last.args[1]).booked_hours # <<>>

(***************************************************************************)
(* C6.  get_room and book_room with an id that is not in the registry fail *)
(* with RoomNotFoundError for every hour, also outside [0,23], and leave   *)
(* the registry as it was.                                                 *)
(***************************************************************************)
C6_absent_id ==
    (/\ last'.op \in {"get_room", "book_room"}
     /\ ~has_key(rooms, last'.args[1])) =>
        /\ last'.err = "RoomNotFoundError"
        /\ rooms' = rooms

C6_AbsentIdNotFound == [][C6_absent_id]_vars

C6_Witness ==
    /\ last.op = "book_room"
    /\ last.err = "RoomNotFoundError"
    /\ ~in_range(last.args[2])
    /\ rooms # <<>>

(***************************************************************************)
(* C7.  For an existing id, book_room with an hour below 0 or above 23     *)
(* fails with ValueError whatever is booked in the room, and the room's    *)
(* booked hours stay as they were.                                         *)
(***************************************************************************)
C7_hour_out_of_range ==
    (/\ last'.op = "book_room"
     /\ has_key(rooms, last'.args[1])
     /\ ~in_range(last'.args[2])) =>
        /\ last'.err = "ValueError"
        /\ rooms' = rooms

C7_InvalidHour == [][C7_hour_out_of_range]_vars

\* the hour out of range is itself booked in the room (it came from the file)
C7_Witness ==
    /\ last.op = "book_room"
    /\ last.err = "ValueError"
    /\ ~is_free_at(room_of(rooms, last.args[1]), last.args[2])

(***************************************************************************)
(* C8.  find_rooms without filters returns every room exactly once; with   *)
(* the three filters it returns exactly the rooms that each filter alone   *)
(* returns (building equal ignoring case, capacity >= min_capacity, free   *)
(* at free_at_hour); find_rooms never changes the registry.                *)
(***************************************************************************)
once_each(res, rs) ==
    /\ Len(res) = Len(rs)
    /\ \A i \in 1..Len(rs) :
           Cardinality({j \in 1..Len(res) : res[j] = rs[i]}) = 1

C8_result ==
    last.op = "find_rooms" =>
        LET b == last.args[1]
            m == last.args[2]
            h == last.args[3]
            res == last.result
        IN  /\ (b = None /\ m = None /\ h = None) => once_each(res, rooms)
            /\ (b # None /\ m # None /\ h # None) =>
                   /\ elems(res) =
                          elems(find_rooms(rooms, b, None, None))
                              \cap elems(find_rooms(rooms, None, m, None))
                              \cap elems(find_rooms(rooms, None, None, h))
                   /\ elems(res) =
                          {r \in elems(rooms) :
                               /\ lower(r.building) = lower(b[1])
                               /\ r.capacity >= m[1]
                               /\ is_free_at(r, h[1])}
                   /\ Cardinality(elems(res)) = Len(res)

C8_read_only ==
    last'.op = "find_rooms" => (rooms' = rooms /\ file' = file)

C8_FindRooms == []C8_result /\ [][C8_read_only]_vars

\* the three filters kept a room whose capacity is the minimum asked for and
\* whose building differs in case, and dropped another room
C8_Witness ==
    /\ last.op = "find_rooms"
    /\ last.args[1] # None /\ last.args[2] # None /\ last.args[3] # None
    /\ Len(last.result) < Len(rooms)
    /\ \E i \in 1..Len(last.result) :
           /\ last.result[i].capacity = last.args[2][1]
           /\ last.result[i].building # last.args[1][1]
           /\ last.result[i].booked_hours # <<>>

(***************************************************************************)
(* C9.  A successful book_room(id, h1) changes only whether h1 is booked   *)
(* in room id: is_free_at(h2) of that room is the same for every other     *)
(* hour h2, its building and capacity, every other room and the set of     *)
(* room ids are as they were.                                              *)
(***************************************************************************)
C9_frame ==
    (last'.op = "book_room" /\ last'.err = "ok") =>
        LET id == last'.args[1]
            h1 == last'.args[2]
        IN  /\ Len(rooms') = Len(rooms)
            /\ \A i \in 1..Len(rooms) :
                   /\ rooms'[i].room_no = rooms[i].room_no
                   /\ rooms'[i].building = rooms[i].building
                   /\ rooms'[i].capacity = rooms[i].capacity
                   /\ rooms[i].room_no # id => rooms'[i] = rooms[i]
                   /\ rooms[i].room_no = id =>
                          /\ is_free_at(rooms[i], h1)
                          /\ ~is_free_at(rooms'[i], h1)
                          /\ \A h2 \in AllHours \ {h1} :
                                 is_free_at(rooms'[i], h2)
                                     = is_free_at(rooms[i], h2)
            /\ file' = file

C9_BookRoomFrame == [][C9_frame]_vars

\* the room had other hours booked, and another room has bookings too
C9_Witness ==
    /\ last.op = "book_room"
    /\ last.err = "ok"
    /\ Len(room_of(rooms, last.args[1]).booked_hours) >= 3
    /\ \E i \in 1..Len(rooms) :
           /\ rooms[i].room_no # last.args[1]
           /\ rooms[i].booked_hours # <<>>

(***************************************************************************)
(* C10.  booked_hours_str of every room is the room's booked hours in      *)
(* ascending order joined by ";", the empty string when there are none.    *)
(***************************************************************************)
C10_AscendingDisplay ==
    \A i \in 1..Len(rooms) :
        LET hs == sort(rooms[i].booked_hours)
        IN  /\ booked_hours_str(rooms[i])
                   = join(";", [k \in 1..Len(hs) |-> str(hs[k])])
            /\ rooms[i].booked_hours = <<>> => booked_hours_str(rooms[i]) = <<>>

====
